---------------------------- MODULE Spec2Model ----------------------------
(* A model of echobot.py, an anonymous relay bot: every message a user    *)
(* sends to the bot is copied to every registered user; edits, deletes,   *)
(* bans and a 60 second cooldown act on the stored message mapping.       *)
(*                                                                        *)
(* The three MongoDB collections the code uses are modelled as sequences  *)
(* of documents in insertion order (find returns the matching documents   *)
(* in that order, find_one the first of them).  Telegram is modelled by   *)
(* the private chat of the bot with each user: message ids are the        *)
(* positions in that chat, so they are unique per chat only.              *)
(* The settings collection only decides the inline keyboard attached to   *)
(* a copy and is left out.                                                *)
EXTENDS Integers, Sequences, FiniteSets, TLC

\* ------------------------------------------------------------ bounds
MaxChat == 5       \* SpecRelay: a new message is taken while the chats hold fewer messages
MaxChatAll == 3    \* the same, where the privileged commands run too
MaxLedger == 3     \* ... and db.sent_messages holds fewer records
MaxRun == 2        \* SpecConcurrent: the same bound on the chats
MaxTime == 60      \* the clock stops ticking here
TickStep == 60     \* seconds between two observations of the clock

\* ------------------------------------------------- program constants
admin_id == 1                 \* config.admin_id, the operator
COOLDOWN == 60                \* cooldown_check: seconds between messages
BAN_SECONDS == 31536000       \* ban_handler: timedelta(days=365)
UNBAN_SECONDS == 60           \* unban_handler: timedelta(seconds=60)

\* the people who talk to the bot: the operator and one more user (the
\* sender of a message is one of its recipients too)
Users == {1, 2}
None == 0                     \* Python's None where a message id is expected

\* the invocations of text_handler that can be in flight together
Slots == {1, 2}

\* a slot with no invocation in it; seen is <<>> or <<the sent_at read>>
IdleRun == [pc |-> "idle", from |-> 0, message_id |-> 0, at |-> 0, seen |-> <<>>,
            privileged |-> FALSE, tasks |-> <<>>, count |-> 0]

VARIABLES
    users,           \* db.users: Seq of [user_id, admin, vip]
    cooldown,        \* db.cooldown: user_id -> sent_at, a partial function
    sent_messages,   \* db.sent_messages: Seq of relay records
    chat,            \* chat[u]: who wrote message i of u's chat with the bot
    now,             \* datetime.now(), in seconds
    event,           \* the update being handled: [type, from, message_id, reply_to, is_bot]
    calls,           \* transport calls made by the handler of event, in order
    reply,           \* message.reply of the handler: [kind, count]
    fault,           \* the handler of event ended with an uncaught exception
    banned,          \* history: users a /ban wrote the record of, no /unban since
    unbanned,        \* history: users a /unban wrote the record of, no message or /ban since
    run              \* run[s]: the invocation of text_handler in flight in slot s

vars == <<users, cooldown, sent_messages, chat, now, event, calls, reply, fault, banned, unbanned, run>>

\* what bot.copy_message and bot.edit_message_text can do: return, or raise
\* BotBlocked, UserDeactivated or any other exception
Outcomes == {"ok", "BotBlocked", "UserDeactivated", "Exception"}

\* the transport reports the recipient as unreachable
Unreachable == {"BotBlocked", "UserDeactivated"}

NoReply == [kind |-> "none", count |-> 0]
Reply(k) == [kind |-> k, count |-> 0]

\* ------------------------------------------------------ db.users
\* db.users.find_one({"user_id": user_id}): the documents that match
find_user(us, user_id) == SelectSeq(us, LAMBDA d : d.user_id = user_id)

has_user(us, user_id) == Len(find_user(us, user_id)) > 0

\* save_user: update_one({"user_id": ...}, {"$set": {user_id, admin, vip}}, upsert=True)
save_user(us, user_id, admin, vip) ==
    IF has_user(us, user_id)
    THEN LET first == CHOOSE i \in 1..Len(us) :
                          /\ us[i].user_id = user_id
                          /\ \A j \in 1..(i - 1) : us[j].user_id # user_id
         IN [us EXCEPT ![first] = [user_id |-> user_id, admin |-> admin, vip |-> vip]]
    ELSE Append(us, [user_id |-> user_id, admin |-> admin, vip |-> vip])

\* db.users.delete_one(dict(user_id=...)): removes the first matching document
delete_user(us, user_id) ==
    IF has_user(us, user_id)
    THEN LET first == CHOOSE i \in 1..Len(us) :
                          /\ us[i].user_id = user_id
                          /\ \A j \in 1..(i - 1) : us[j].user_id # user_id
         IN SubSeq(us, 1, first - 1) \o SubSeq(us, first + 1, Len(us))
    ELSE us

is_admin(us, user_id) ==
    IF has_user(us, user_id) THEN Head(find_user(us, user_id)).admin ELSE FALSE

\* is_vip that never sees the flag
is_vip_ignored(us, user_id) == FALSE

is_vip(us, user_id) ==
    IF has_user(us, user_id) THEN Head(find_user(us, user_id)).vip ELSE FALSE

\* ---------------------------------------------------- db.cooldown
\* cooldown_check with <= for <: the sixtieth second still denies
cooldown_check_inclusive(cd, user_id, t) ==
    IF user_id \in DOMAIN cd
    THEN ~(t - cd[user_id] <= COOLDOWN)
    ELSE TRUE

cooldown_check(cd, user_id, t) ==
    IF user_id \in DOMAIN cd
    THEN ~(t - cd[user_id] < COOLDOWN)
    ELSE TRUE

\* update_one({"user_id": ...}, {"$set": {"sent_at": ...}}, upsert=True)
set_sent_at(cd, user_id, t) ==
    [x \in (DOMAIN cd) \cup {user_id} |-> IF x = user_id THEN t ELSE cd[x]]

\* update_cooldown that writes nothing
update_cooldown_skipped(cd, user_id, t) == cd

update_cooldown(cd, user_id, t) == set_sent_at(cd, user_id, t)

\* ------------------------------------------------ db.sent_messages
\* save_sent_message that inserts the document twice
save_sent_message_twice(sm, sender_id, sender_message_id, receiver_id, receiver_message_id, original_message_id) ==
    LET doc == [sender_id |-> sender_id, sender_message_id |-> sender_message_id,
                receiver_id |-> receiver_id, receiver_message_id |-> receiver_message_id,
                original_message_id |-> original_message_id]
    IN Append(Append(sm, doc), doc)

save_sent_message(sm, sender_id, sender_message_id, receiver_id, receiver_message_id, original_message_id) ==
    Append(sm, [sender_id |-> sender_id, sender_message_id |-> sender_message_id,
                receiver_id |-> receiver_id, receiver_message_id |-> receiver_message_id,
                original_message_id |-> original_message_id])

get_sent_messages(sm, sender_id, sender_message_id) ==
    SelectSeq(sm, LAMBDA d : /\ d.sender_id = sender_id
                             /\ d.original_message_id = sender_message_id)

\* The two branches the program uses, those with a receiver_id; the result
\* is the receiver_message_id of the first match, or None.
get_sent_message_id(sm, sender_message_id, original_message_id, receiver_id) ==
    IF sender_message_id # None
    THEN LET found == SelectSeq(sm, LAMBDA d : /\ d.sender_message_id = sender_message_id
                                               /\ d.receiver_id = receiver_id)
         IN IF Len(found) > 0 THEN Head(found).receiver_message_id ELSE None
    ELSE IF original_message_id # None
    THEN LET found == SelectSeq(sm, LAMBDA d : /\ d.receiver_id = receiver_id
                                               /\ d.original_message_id = original_message_id)
         IN IF Len(found) > 0 THEN Head(found).receiver_message_id ELSE None
    ELSE None

\* delete_many({"sender_id": ..., "sender_message_id": ...}); no handler calls it
delete_sent_messages(sm, sender_id, sender_message_id) ==
    SelectSeq(sm, LAMBDA d : ~(/\ d.sender_id = sender_id
                               /\ d.sender_message_id = sender_message_id))

\* db.sent_messages.find(dict(sender_message_id=...)) or find(dict(original_message_id=...))
\* of delete_handler, ban_handler and unban_handler
find_replied(sm, reply_to, is_bot) ==
    IF is_bot
    THEN SelectSeq(sm, LAMBDA d : d.sender_message_id = reply_to)
    ELSE SelectSeq(sm, LAMBDA d : d.original_message_id = reply_to)

\* ------------------------------------------------------ transport
Call(op, chat_id, message_id, reply_to, result) ==
    [op |-> op, chat_id |-> chat_id, message_id |-> message_id,
     reply_to |-> reply_to, result |-> result]

\* ----------------------------------------------------- relay engine
\* st = [users, sent_messages, chat, calls], the state one fan-out task works on
send_msg(st, message, user_id, outcome) ==
    LET reply_to_message_id ==
            IF message.reply_to # None
            THEN IF message.is_bot
                 THEN get_sent_message_id(st.sent_messages, message.reply_to, None, user_id)
                 ELSE get_sent_message_id(st.sent_messages, None, message.reply_to, user_id)
            ELSE None
        copy_id == Len(st.chat[user_id]) + 1
    IN IF outcome = "ok"
       THEN [st EXCEPT
                !.chat[user_id] = Append(@, "bot"),
                !.sent_messages = save_sent_message(@, message.from, copy_id, user_id,
                                                    copy_id, message.message_id),
                !.calls = Append(@, Call("copy", user_id, copy_id, reply_to_message_id, "ok"))]
       ELSE IF outcome = "BotBlocked"
       THEN [st EXCEPT
                !.users = delete_user(@, user_id),
                !.calls = Append(@, Call("copy", user_id, None, reply_to_message_id, outcome))]
       ELSE IF outcome = "UserDeactivated"
       THEN [st EXCEPT
                !.users = delete_user(@, user_id),
                !.calls = Append(@, Call("copy", user_id, None, reply_to_message_id, outcome))]
       ELSE [st EXCEPT
                !.calls = Append(@, Call("copy", user_id, None, reply_to_message_id, outcome))]

\* the fan-out as a loop that the first failed copy ends
RECURSIVE gather_send_msg_abort(_, _, _, _, _)
gather_send_msg_abort(st, message, us, oc, i) ==
    IF i > Len(us)
    THEN st
    ELSE IF oc[i] # "ok"
    THEN send_msg(st, message, us[i].user_id, oc[i])
    ELSE gather_send_msg_abort(send_msg(st, message, us[i].user_id, oc[i]),
                               message, us, oc, i + 1)

\* cor = [ensure_future(send_msg(...)) async for user in users]; gather(*cor):
\* one task per document of the cursor us, run in cursor order
RECURSIVE gather_send_msg(_, _, _, _, _)
gather_send_msg(st, message, us, oc, i) ==
    IF i > Len(us)
    THEN st
    ELSE gather_send_msg(send_msg(st, message, us[i].user_id, oc[i]), message, us, oc, i + 1)

\* the count of the confirmation: count = len(cor)
broadcast_count(us, st) == Len(us)

\* result: [st, reply, fault]
broadcast_message(st, message, oc) ==
    IF ~has_user(st.users, message.from)
    THEN [st |-> st, reply |-> NoReply, fault |-> TRUE]      \* User(**None): TypeError
    ELSE LET us == st.users
             done == gather_send_msg(st, message, us, oc, 1)
         IN [st |-> done,
             reply |-> [kind |-> "sent", count |-> broadcast_count(us, done)],
             fault |-> FALSE]

edit_cor(st, sent_message, outcome) ==
    LET call == Call("edit", sent_message.receiver_id, sent_message.receiver_message_id,
                     None, outcome)
    IN IF outcome = "BotBlocked"
       THEN [st EXCEPT !.users = delete_user(@, sent_message.receiver_id),
                       !.calls = Append(@, call)]
       ELSE IF outcome = "UserDeactivated"
       THEN [st EXCEPT !.users = delete_user(@, sent_message.receiver_id),
                       !.calls = Append(@, call)]
       ELSE [st EXCEPT !.calls = Append(@, call)]

RECURSIVE gather_edit_cor(_, _, _, _)
gather_edit_cor(st, found, oc, i) ==
    IF i > Len(found)
    THEN st
    ELSE gather_edit_cor(edit_cor(st, found[i], oc[i]), found, oc, i + 1)

\* ------------------------------------------------------- handlers
Handled(ev, cs, rp, ft) ==
    /\ event' = ev
    /\ calls' = cs
    /\ reply' = rp
    /\ fault' = ft

Command(type, from, arg) ==
    [type |-> type, from |-> from, message_id |-> arg, reply_to |-> None, is_bot |-> FALSE]

\* /start
start_handler(from) ==
    /\ users' = IF ~has_user(users, from) THEN save_user(users, from, FALSE, FALSE) ELSE users
    /\ Handled(Command("start", from, None), <<>>, Reply("welcome"), FALSE)
    /\ UNCHANGED <<cooldown, sent_messages, chat, now>>

\* /admin <args>; args = None stands for arguments int() rejects
admin_handler(from, args) ==
    /\ IF from = admin_id
       THEN IF args = None
            THEN /\ Handled(Command("admin", from, args), <<>>, NoReply, TRUE)
                 /\ UNCHANGED users
            ELSE /\ users' = save_user(users, args, TRUE, FALSE)
                 /\ Handled(Command("admin", from, args), <<>>, Reply("done"), FALSE)
       ELSE /\ Handled(Command("admin", from, args), <<>>, Reply("no_rights"), FALSE)
            /\ UNCHANGED users
    /\ UNCHANGED <<cooldown, sent_messages, chat, now>>

\* /vip <args>
vip_handler(from, args) ==
    /\ IF from = admin_id
       THEN IF args = None
            THEN /\ Handled(Command("vip", from, args), <<>>, NoReply, TRUE)
                 /\ UNCHANGED users
            ELSE /\ users' = save_user(users, args, FALSE, TRUE)
                 /\ Handled(Command("vip", from, args), <<>>, Reply("done"), FALSE)
       ELSE /\ Handled(Command("vip", from, args), <<>>, Reply("no_rights"), FALSE)
            /\ UNCHANGED users
    /\ UNCHANGED <<cooldown, sent_messages, chat, now>>

State == [users |-> users, sent_messages |-> sent_messages, chat |-> chat, calls |-> <<>>]

\* any other message: admission, then the fan-out.  The message is message
\* number message_id of the sender's chat; reply_to is None or an earlier
\* message of that chat.
text_handler(from, reply_to) ==
    LET message == [type |-> "text", from |-> from,
                    message_id |-> Len(chat[from]) + 1, reply_to |-> reply_to,
                    is_bot |-> IF reply_to = None THEN FALSE
                               ELSE chat[from][reply_to] = "bot"]
        st == [State EXCEPT !.chat[from] = Append(@, "user")]
        privileged == is_admin(users, from) \/ is_vip(users, from)
        allowed == privileged \/ cooldown_check(cooldown, from, now)
    IN /\ reply_to \in 0..Len(chat[from])
       /\ now' = now
       /\ IF allowed
          THEN /\ cooldown' = IF privileged THEN cooldown
                              ELSE update_cooldown(cooldown, from, now)
               /\ \E oc \in [1..Len(users) -> Outcomes] :
                      LET done == broadcast_message(st, message, oc)
                      IN /\ users' = done.st.users
                         /\ sent_messages' = done.st.sent_messages
                         /\ chat' = done.st.chat
                         /\ Handled(message, done.st.calls, done.reply, done.fault)
          ELSE /\ chat' = st.chat
               /\ Handled(message, <<>>, Reply("wait"), FALSE)
               /\ UNCHANGED <<users, cooldown, sent_messages>>

\* an edited message: message_id is a message the sender wrote
edit_handler(from, message_id) ==
    LET message == [type |-> "edit", from |-> from, message_id |-> message_id,
                    reply_to |-> None, is_bot |-> FALSE]
        found == get_sent_messages(sent_messages, from, message_id)
    IN /\ message_id \in 1..Len(chat[from])
       /\ chat[from][message_id] = "user"
       /\ IF ~has_user(users, from)
          THEN /\ Handled(message, <<>>, NoReply, TRUE)       \* User(**None): TypeError
               /\ UNCHANGED users
          ELSE \E oc \in [1..Len(found) -> Outcomes] :
                   LET done == gather_edit_cor(State, found, oc, 1)
                   IN /\ users' = done.users
                      /\ Handled(message, done.calls, NoReply, FALSE)
       /\ UNCHANGED <<cooldown, sent_messages, chat, now>>

\* async for msg_need in msg_check: bot.delete_message(...), exceptions logged
RECURSIVE delete_copies(_, _, _)
delete_copies(cs, msg_check, i) ==
    IF i > Len(msg_check)
    THEN cs
    ELSE delete_copies(Append(cs, Call("delete", msg_check[i].receiver_id,
                                       msg_check[i].receiver_message_id, None, "ok")),
                       msg_check, i + 1)

\* async for msg in msgs of delete_handler; result: [calls, reply]
RECURSIVE delete_loop(_, _, _, _)
delete_loop(from, msgs, i, cs) ==
    IF i > Len(msgs)
    THEN [calls |-> cs, reply |-> Reply("deleted")]
    ELSE IF ~is_admin(users, from) /\ ~(from = msgs[i].sender_id)
    THEN [calls |-> cs, reply |-> Reply("del_denied")]
    ELSE LET msg_check == SelectSeq(sent_messages, LAMBDA d :
                              d.original_message_id = msgs[i].original_message_id)
         IN delete_loop(from, msgs, i + 1, delete_copies(cs, msg_check, 1))

\* /del in reply to message reply_to of the issuer's chat
delete_handler(from, reply_to) ==
    LET is_bot == chat[from][reply_to] = "bot"
        message == [type |-> "del", from |-> from, message_id |-> None,
                    reply_to |-> reply_to, is_bot |-> is_bot]
        done == delete_loop(from, find_replied(sent_messages, reply_to, is_bot), 1, <<>>)
    IN /\ reply_to \in 1..Len(chat[from])
       /\ Handled(message, done.calls, done.reply, FALSE)
       /\ UNCHANGED <<users, cooldown, sent_messages, chat, now>>

\* async for msg in msgs of ban_handler; acc = [users, cooldown, user_id, reply, fault]
RECURSIVE ban_loop(_, _, _, _)
ban_loop(from, msgs, i, acc) ==
    IF i > Len(msgs)
    THEN [acc EXCEPT !.reply = IF acc.user_id # 0 THEN Reply("banned") ELSE Reply("failed")]
    ELSE IF ~is_admin(acc.users, from)
    THEN [acc EXCEPT !.reply = Reply("no_rights")]
    ELSE LET user_id == msgs[i].sender_id
         IN IF ~has_user(acc.users, user_id)
            THEN [acc EXCEPT !.user_id = user_id, !.fault = TRUE]   \* User(**None)
            ELSE LET user == Head(find_user(acc.users, user_id))
                     us1 == IF user.vip THEN save_user(acc.users, user_id, FALSE, FALSE)
                            ELSE acc.users
                     us2 == IF user.admin THEN save_user(us1, user_id, FALSE, FALSE)
                            ELSE us1
                 IN ban_loop(from, msgs, i + 1,
                             [acc EXCEPT !.user_id = user_id,
                                         !.users = us2,
                                         !.cooldown = set_sent_at(@, user_id, now + BAN_SECONDS)])

\* /ban in reply to message reply_to of the issuer's chat
ban_handler(from, reply_to) ==
    LET is_bot == chat[from][reply_to] = "bot"
        message == [type |-> "ban", from |-> from, message_id |-> None,
                    reply_to |-> reply_to, is_bot |-> is_bot]
        done == ban_loop(from, find_replied(sent_messages, reply_to, is_bot), 1,
                         [users |-> users, cooldown |-> cooldown, user_id |-> 0,
                          reply |-> NoReply, fault |-> FALSE])
    IN /\ reply_to \in 1..Len(chat[from])
       /\ users' = done.users
       /\ cooldown' = done.cooldown
       /\ Handled(message, <<>>, done.reply, done.fault)
       /\ UNCHANGED <<sent_messages, chat, now>>

\* async for msg in msgs of unban_handler
RECURSIVE unban_loop(_, _, _, _)
unban_loop(from, msgs, i, acc) ==
    IF i > Len(msgs)
    THEN [acc EXCEPT !.reply = IF acc.user_id # 0 THEN Reply("unbanned") ELSE Reply("failed")]
    ELSE IF ~is_admin(acc.users, from)
    THEN [acc EXCEPT !.reply = Reply("no_rights")]
    ELSE LET user_id == msgs[i].sender_id
         IN IF ~has_user(acc.users, user_id)
            THEN [acc EXCEPT !.user_id = user_id, !.fault = TRUE]   \* User(**None)
            ELSE unban_loop(from, msgs, i + 1,
                            [acc EXCEPT !.user_id = user_id,
                                        !.cooldown = set_sent_at(@, user_id, now - UNBAN_SECONDS)])

\* /unban in reply to message reply_to of the issuer's chat
unban_handler(from, reply_to) ==
    LET is_bot == chat[from][reply_to] = "bot"
        message == [type |-> "unban", from |-> from, message_id |-> None,
                    reply_to |-> reply_to, is_bot |-> is_bot]
        done == unban_loop(from, find_replied(sent_messages, reply_to, is_bot), 1,
                           [users |-> users, cooldown |-> cooldown, user_id |-> 0,
                            reply |-> NoReply, fault |-> FALSE])
    IN /\ reply_to \in 1..Len(chat[from])
       /\ cooldown' = done.cooldown
       /\ Handled(message, <<>>, done.reply, done.fault)
       /\ UNCHANGED <<users, sent_messages, chat, now>>

\* time passes between two updates
Tick ==
    /\ event.type = "none"
    /\ now + TickStep <= MaxTime
    /\ now' = now + TickStep
    /\ UNCHANGED <<users, cooldown, sent_messages, chat, event, calls, reply, fault>>
    /\ UNCHANGED <<banned, unbanned, run>>

\* a year passes: the 365 days a ban adds to sent_at
LongTick ==
    /\ event.type = "none"
    /\ now <= MaxTime
    /\ now' = now + BAN_SECONDS
    /\ UNCHANGED <<users, cooldown, sent_messages, chat, event, calls, reply, fault>>
    /\ UNCHANGED <<banned, unbanned, run>>

Init ==
    /\ users = <<>>
    /\ cooldown = <<>>
    /\ sent_messages = <<>>
    /\ chat = [u \in Users |-> <<>>]
    /\ now = 0
    /\ event = Command("none", 0, None)
    /\ calls = <<>>
    /\ reply = NoReply
    /\ fault = FALSE
    /\ banned = {}
    /\ unbanned = {}
    /\ run = [s \in Slots |-> IdleRun]

\* the number of messages in the chats of the users in S
RECURSIVE ChatTotal(_)
ChatTotal(S) ==
    IF S = {} THEN 0
    ELSE LET u == CHOOSE x \in S : TRUE
         IN Len(chat[u]) + ChatTotal(S \ {u})

\* a new message is taken while the chats hold fewer than bound messages and
\* the ledger fewer than MaxLedger records
Room(bound) ==
    /\ ChatTotal(Users) < bound
    /\ Len(sent_messages) < MaxLedger

\* the dispatcher hands over one update at a time
Idle == event.type = "none"

\* the history of bans: what the step just taken did to it
History(newly_banned, newly_unbanned, sender) ==
    /\ banned' = (banned \cup newly_banned) \ newly_unbanned
    /\ unbanned' = ((unbanned \cup newly_unbanned) \ newly_banned) \ sender

NoHistory == UNCHANGED <<banned, unbanned>>

\* the users whose record holds the sent_at a /ban handled now writes
ban_written == {u \in DOMAIN cooldown' : cooldown'[u] = now + BAN_SECONDS}

\* the users whose record the loop of unban_handler writes: the senders of
\* msgs up to the first one that is not in the directory
unban_written(from, msgs) ==
    IF ~is_admin(users, from) THEN {}
    ELSE {msgs[k].sender_id : k \in {i \in 1..Len(msgs) :
                                  \A j \in 1..i : has_user(users, msgs[j].sender_id)}}

Start == \E u \in Users : Idle /\ start_handler(u) /\ NoHistory /\ UNCHANGED run
Admin == \E u \in Users, a \in Users \cup {None} : Idle /\ admin_handler(u, a) /\ NoHistory /\ UNCHANGED run
Vip == \E u \in Users, a \in Users \cup {None} : Idle /\ vip_handler(u, a) /\ NoHistory /\ UNCHANGED run
Text(bound) == \E u \in Users, r \in 0..bound : Idle /\ Room(bound) /\ text_handler(u, r) /\ History({}, {}, {u}) /\ UNCHANGED run
Edit == \E u \in Users, m \in 1..(MaxChat + 1) : Idle /\ edit_handler(u, m) /\ NoHistory /\ UNCHANGED run
Del == \E u \in Users, r \in 1..(MaxChat + 1) : Idle /\ delete_handler(u, r) /\ NoHistory /\ UNCHANGED run
Ban == \E u \in Users, r \in 1..(MaxChat + 1) : Idle /\ ban_handler(u, r) /\ History(ban_written, {}, {}) /\ UNCHANGED run
Unban == \E u \in Users, r \in 1..(MaxChat + 1) : Idle /\ unban_handler(u, r) /\ History({}, unban_written(u, find_replied(sent_messages, r, chat[u][r] = "bot")), {}) /\ UNCHANGED run

\* the handler has returned: the update and what it did are forgotten
Return ==
    /\ ~Idle
    /\ Handled(Command("none", 0, None), <<>>, NoReply, FALSE)
    /\ UNCHANGED <<users, cooldown, sent_messages, chat, now>>
    /\ NoHistory
    /\ UNCHANGED run

\* every handler, one update at a time
Next ==
    \/ Start
    \/ Admin
    \/ Vip
    \/ Text(MaxChatAll)
    \/ Edit
    \/ Del
    \/ Ban
    \/ Unban
    \/ Return
    \/ Tick

Spec == Init /\ [][Next]_vars

\* the relay engine: registration, new messages, edits and deletes
NextRelay ==
    \/ Start
    \/ Text(MaxChat)
    \/ Edit
    \/ Del
    \/ Return
    \/ Tick

SpecRelay == Init /\ [][NextRelay]_vars

\* admission: privileges, bans and the cooldown of new messages
NextAdmission ==
    \/ Start
    \/ Admin
    \/ Vip
    \/ Text(MaxChatAll)
    \/ Ban
    \/ Unban
    \/ Return
    \/ Tick

SpecAdmission == Init /\ [][NextAdmission]_vars

\* admission over a long time: as SpecAdmission, and a year can pass
NextBan ==
    \/ Start
    \/ Admin
    \/ Vip
    \/ Text(MaxChatAll)
    \/ Ban
    \/ Unban
    \/ Return
    \/ Tick
    \/ LongTick

SpecBan == Init /\ [][NextBan]_vars

\* ------------------------------------------- handlers in flight together
\* text_handler and broadcast_message step by step: between two awaits an
\* invocation runs alone, at an await another one may run.  The messages of
\* this part reply to nothing.
Quiet == UNCHANGED <<event, calls, reply, fault, banned, unbanned>>

\* a task of the fan-out; copy_id is None until bot.copy_message has returned
Task(user_id) == [user_id |-> user_id, pc |-> "copy", copy_id |-> None]

\* a join that the first finished task satisfies
gathered_first(tasks) == \E k \in 1..Len(tasks) : tasks[k].pc = "done"

\* await asyncio.gather(*cor): every task has finished
gathered(tasks) == \A k \in 1..Len(tasks) : tasks[k].pc = "done"

\* start_handler of a user who is not in the directory, its reply left out
Join ==
    \E u \in Users :
        /\ ~has_user(users, u)
        /\ users' = save_user(users, u, FALSE, FALSE)
        /\ UNCHANGED <<cooldown, sent_messages, chat, now, run>>
        /\ Quiet

\* the update reaches text_handler, in the first free slot
arrive(s, u) ==
    /\ run[s].pc = "idle"
    /\ \A t \in Slots : t < s => run[t].pc # "idle"
    /\ Room(MaxRun)
    /\ chat' = [chat EXCEPT ![u] = Append(@, "user")]
    /\ run' = [run EXCEPT ![s] = [IdleRun EXCEPT !.pc = "check", !.from = u,
                                                 !.message_id = Len(chat[u]) + 1]]
    /\ UNCHANGED <<users, cooldown, sent_messages, now>>
    /\ Quiet

\* await is_admin(...) or await is_vip(...), elif await cooldown_check(...)
check(s) ==
    LET u == run[s].from
        privileged == is_admin(users, u) \/ is_vip(users, u)
    IN /\ run[s].pc = "check"
       /\ run' = [run EXCEPT
                     ![s].privileged = privileged,
                     ![s].at = now,
                     ![s].seen = IF u \in DOMAIN cooldown THEN <<cooldown[u]>> ELSE <<>>,
                     ![s].pc = IF privileged THEN "broadcast"
                               ELSE IF cooldown_check(cooldown, u, now) THEN "set"
                               ELSE "denied"]
       /\ UNCHANGED <<users, cooldown, sent_messages, chat, now>>
       /\ Quiet

\* await update_cooldown(user_id)
set_cooldown(s) ==
    /\ run[s].pc = "set"
    /\ cooldown' = update_cooldown(cooldown, run[s].from, now)
    /\ run' = [run EXCEPT ![s].pc = "broadcast"]
    /\ UNCHANGED <<users, sent_messages, chat, now>>
    /\ Quiet

\* broadcast_message up to count = len(cor): one task per directory document
begin(s) ==
    /\ run[s].pc = "broadcast"
    /\ run' = IF ~has_user(users, run[s].from)
              THEN [run EXCEPT ![s].pc = "fault"]             \* User(**None): TypeError
              ELSE [run EXCEPT ![s].pc = "fanout",
                               ![s].tasks = [k \in 1..Len(users) |-> Task(users[k].user_id)],
                               ![s].count = broadcast_count(users, State)]
    /\ UNCHANGED <<users, cooldown, sent_messages, chat, now>>
    /\ Quiet

\* send_msg up to the return of bot.copy_message, or its except clause
copy(s, k, outcome) ==
    LET y == run[s].tasks[k].user_id
    IN /\ run[s].pc = "fanout"
       /\ run[s].tasks[k].pc = "copy"
       /\ IF outcome = "ok"
          THEN /\ chat' = [chat EXCEPT ![y] = Append(@, "bot")]
               /\ run' = [run EXCEPT ![s].tasks[k].pc = "save",
                                     ![s].tasks[k].copy_id = Len(chat[y]) + 1]
               /\ UNCHANGED users
          ELSE /\ users' = IF outcome \in Unreachable THEN delete_user(users, y) ELSE users
               /\ run' = [run EXCEPT ![s].tasks[k].pc = "done"]
               /\ UNCHANGED chat
       /\ UNCHANGED <<cooldown, sent_messages, now>>
       /\ Quiet

\* send_msg: await save_sent_message(...)
save(s, k) ==
    LET task == run[s].tasks[k]
    IN /\ run[s].pc = "fanout"
       /\ task.pc = "save"
       /\ sent_messages' = save_sent_message(sent_messages, run[s].from, task.copy_id,
                                             task.user_id, task.copy_id, run[s].message_id)
       /\ run' = [run EXCEPT ![s].tasks[k].pc = "done"]
       /\ UNCHANGED <<users, cooldown, chat, now>>
       /\ Quiet

\* the gather returns and message.reply sends the confirmation
settle(s) ==
    /\ run[s].pc = "fanout"
    /\ gathered(run[s].tasks)
    /\ run' = [run EXCEPT ![s].pc = "settled"]
    /\ UNCHANGED <<users, cooldown, sent_messages, chat, now>>
    /\ Quiet

\* the invocation is over: confirmed, denied with the please-wait reply, or raised
finish(s) ==
    /\ run[s].pc \in {"settled", "denied", "fault"}
    /\ run' = [run EXCEPT ![s] = IdleRun]
    /\ UNCHANGED <<users, cooldown, sent_messages, chat, now>>
    /\ Quiet

Arrive == \E s \in Slots, u \in Users : arrive(s, u)
Check == \E s \in Slots : check(s)
SetCooldown == \E s \in Slots : set_cooldown(s)
Begin == \E s \in Slots : begin(s)
Copy == \E s \in Slots, k \in 1..Cardinality(Users), outcome \in Outcomes :
            k <= Len(run[s].tasks) /\ copy(s, k, outcome)
Save == \E s \in Slots, k \in 1..Cardinality(Users) : k <= Len(run[s].tasks) /\ save(s, k)
Settle == \E s \in Slots : settle(s)
Finish == \E s \in Slots : finish(s)

NextConcurrent ==
    \/ Join
    \/ Tick
    \/ Arrive
    \/ Check
    \/ SetCooldown
    \/ Begin
    \/ Copy
    \/ Save
    \/ Settle
    \/ Finish

\* what the event loop runs of the invocation in slot s once it can go on
Progress(s) ==
    \/ check(s)
    \/ set_cooldown(s)
    \/ begin(s)
    \/ \E k \in 1..Cardinality(Users), outcome \in Outcomes :
           k <= Len(run[s].tasks) /\ copy(s, k, outcome)
    \/ \E k \in 1..Cardinality(Users) : k <= Len(run[s].tasks) /\ save(s, k)
    \/ settle(s)

\* the event loop resumes every invocation that can go on, and every
\* transport and database call returns
SpecConcurrent ==
    /\ Init
    /\ [][NextConcurrent]_vars
    /\ \A s \in Slots : WF_vars(Progress(s))

\* the same while the clock stands still: what the join waits for does not
\* depend on the time
NextFanout ==
    \/ Join
    \/ Arrive
    \/ Check
    \/ SetCooldown
    \/ Begin
    \/ Copy
    \/ Save
    \/ Settle
    \/ Finish

SpecFanout ==
    /\ Init
    /\ [][NextFanout]_vars
    /\ \A s \in Slots : WF_vars(Progress(s))

\* the ledger on its own: save_sent_message and delete_sent_messages called
\* with any arguments (send_msg passes the copy's id for both message ids)
Record ==
    \E s \in Users, r \in Users, c \in {1, 2}, o \in {1, 2} :
        /\ Len(sent_messages) < MaxLedger
        /\ sent_messages' = save_sent_message(sent_messages, s, c, r, c, o)
        /\ UNCHANGED <<users, cooldown, chat, now, event, calls, reply, fault>>
        /\ NoHistory
        /\ UNCHANGED run

Forget ==
    \E s \in Users, c \in {1, 2} :
        /\ sent_messages' = delete_sent_messages(sent_messages, s, c)
        /\ UNCHANGED <<users, cooldown, chat, now, event, calls, reply, fault>>
        /\ NoHistory
        /\ UNCHANGED run

NextLedger ==
    \/ Record
    \/ Forget

SpecLedger == Init /\ [][NextLedger]_vars

\* ------------------------------------------------------------ claims
Records == {sent_messages[i] : i \in 1..Len(sent_messages)}
Calls == {calls[k] : k \in 1..Len(calls)}

\* the records of the broadcast (sender_id, original_message_id) in sm
BroadcastOf(sm, sender_id, original_message_id, receiver_id) ==
    SelectSeq(sm, LAMBDA d : /\ d.sender_id = sender_id
                             /\ d.original_message_id = original_message_id
                             /\ d.receiver_id = receiver_id)

\* C1: recording the same (sender, original, recipient) twice leaves exactly
\* one record: the ledger never holds two records for one sender, original
\* message and recipient.
C1_RecordIdempotent ==
    \A i, j \in 1..Len(sent_messages) :
        (/\ sent_messages[i].sender_id = sent_messages[j].sender_id
         /\ sent_messages[i].original_message_id = sent_messages[j].original_message_id
         /\ sent_messages[i].receiver_id = sent_messages[j].receiver_id) => i = j

\* C2: when B replies to the copy b it received of a broadcast, the copy sent
\* to another recipient C replies to c, C's copy of that same broadcast.
C2_ReplyToReceivedCopy ==
    (event.type = "text" /\ event.reply_to # None /\ event.is_bot) =>
        \A call \in Calls, b \in Records, c \in Records :
            (/\ b.receiver_id = event.from
             /\ b.receiver_message_id = event.reply_to
             /\ c.sender_id = b.sender_id
             /\ c.original_message_id = b.original_message_id
             /\ c.receiver_id = call.chat_id
             /\ c.receiver_id # event.from) => call.reply_to = c.receiver_message_id

\* C3: when A replies to its own message m, the copy sent to recipient C
\* replies to c, C's copy of A's broadcast m.
C3_ReplyToOwnBroadcast ==
    (event.type = "text" /\ event.reply_to # None /\ ~event.is_bot) =>
        \A call \in Calls, c \in Records :
            (/\ c.sender_id = event.from
             /\ c.original_message_id = event.reply_to
             /\ c.receiver_id = call.chat_id) => call.reply_to = c.receiver_message_id

\* C4: the confirmation reports the number of recipients whose copy succeeded.
C4_CountSuccessful ==
    reply.kind = "sent" =>
        reply.count = Cardinality({k \in 1..Len(calls) : calls[k].result = "ok"})

\* C5: in the fan-out of a new message every member of the directory gets its
\* own attempt, whatever happened to the others: a recipient whose copy fails
\* as unreachable leaves the directory and gets no record, one whose copy
\* fails otherwise stays and gets no record, and one whose copy succeeds
\* stays, holds the copy and gets exactly one record, that of its copy.
C5_FailureIsolation ==
    [][(event'.type = "text" /\ chat' # chat /\ reply'.kind = "sent") =>
          /\ Len(calls') = Len(users)
          /\ \A k \in 1..Len(users) :
                LET y == users[k].user_id
                    call == calls'[k]
                    recs == BroadcastOf(sent_messages', event'.from,
                                        event'.message_id, y)
                IN /\ call.op = "copy"
                   /\ call.chat_id = y
                   /\ call.result \in Unreachable =>
                          ~has_user(users', y) /\ Len(recs) = 0
                   /\ call.result = "Exception" =>
                          has_user(users', y) /\ Len(recs) = 0
                   /\ call.result = "ok" =>
                          /\ has_user(users', y)
                          /\ Len(recs) = 1
                          /\ recs[1].receiver_message_id = call.message_id
                          /\ call.message_id \in 1..Len(chat'[y])
                          /\ chat'[y][call.message_id] = "bot"]_vars

\* C5 happens: one fan-out with an unreachable recipient and a served one
C5_Witness ==
    /\ event.type = "text"
    /\ reply.kind = "sent"
    /\ \E k1, k2 \in 1..Len(calls) :
          /\ calls[k1].result \in Unreachable
          /\ calls[k2].result = "ok"
          /\ Len(BroadcastOf(sent_messages, event.from, event.message_id,
                             calls[k2].chat_id)) = 1

\* C6: a recipient pruned from the directory as unreachable has no record
\* left in the ledger.
C6_PruneCascades ==
    \A call \in Calls :
        call.result \in Unreachable =>
            \A d \in Records : d.receiver_id # call.chat_id

\* C7: an edit of message m by S attempts one transport edit for each record
\* of (S, m), in the chat and on the copy of that record, and no other.
C7_EditTargets ==
    event.type = "edit" =>
        LET found == SelectSeq(sent_messages,
                               LAMBDA d : /\ d.sender_id = event.from
                                          /\ d.original_message_id = event.message_id)
        IN /\ Len(calls) = Len(found)
           /\ \A i \in 1..Len(found) :
                 /\ calls[i].op = "edit"
                 /\ calls[i].chat_id = found[i].receiver_id
                 /\ calls[i].message_id = found[i].receiver_message_id

\* C8: a /del in reply to a copy of somebody else's broadcast, issued by a
\* user who is not admin, ends with the permission-denied reply and attempts
\* no transport delete.
C8_DeniedNoSideEffects ==
    (/\ event.type = "del"
     /\ event.is_bot
     /\ ~is_admin(users, event.from)
     /\ \E b \in Records : /\ b.receiver_id = event.from
                           /\ b.receiver_message_id = event.reply_to
                           /\ b.sender_id # event.from) =>
        reply.kind = "del_denied" /\ calls = <<>>

\* C9: after a /del that ends with the success reply, no record of a copy it
\* deleted is left in the ledger.
C9_DeleteRemovesMapping ==
    (event.type = "del" /\ reply.kind = "deleted") =>
        \A call \in Calls, d \in Records :
            ~(/\ d.receiver_id = call.chat_id
              /\ d.receiver_message_id = call.message_id)

\* C10: a new message of a user who is neither admin nor vip is admitted iff
\* the user has no cooldown record or 60 seconds have passed since sent_at;
\* when admitted, sent_at becomes now and the fan-out runs; when denied, the
\* user gets the please-wait reply, nothing is sent and nothing is stored.
C10_CooldownAdmission ==
    [][(event'.type = "text" /\ chat' # chat
        /\ ~is_admin(users, event'.from) /\ ~is_vip(users, event'.from)) =>
          LET u == event'.from
              allowed == \/ u \notin DOMAIN cooldown
                         \/ now - cooldown[u] >= COOLDOWN
          IN /\ allowed =>
                    /\ reply'.kind # "wait"
                    /\ u \in DOMAIN cooldown'
                    /\ cooldown'[u] = now
                    /\ has_user(users, u) => reply'.kind = "sent"
             /\ ~allowed =>
                    /\ reply' = Reply("wait")
                    /\ calls' = <<>>
                    /\ UNCHANGED <<users, cooldown, sent_messages>>]_vars

\* C10 happens: a second message inside the 60 seconds of an admitted one
C10_Witness ==
    /\ event.type = "text"
    /\ reply.kind = "wait"
    /\ event.from \in DOMAIN cooldown
    /\ cooldown[event.from] = now
    /\ \E d \in Records : d.sender_id = event.from

\* C11: a new message of a user who was banned and not unbanned since, and
\* who holds no privilege, is denied with the please-wait reply, however
\* much time has passed since the ban.
C11_BanPermanent ==
    [][(/\ event'.type = "text"
        /\ chat' # chat
        /\ event'.from \in banned
        /\ ~is_admin(users, event'.from)
        /\ ~is_vip(users, event'.from)) => reply'.kind = "wait"]_vars

\* C12: the next new message of a user whose record an /unban wrote is
\* admitted and fanned out: the handler ends with the confirmation reply.
C12_UnbanRestores ==
    [][(/\ event'.type = "text"
        /\ chat' # chat
        /\ event'.from \in unbanned) => reply'.kind = "sent"]_vars

\* C13: a new message of a user whose admin or vip flag is set is admitted
\* and fanned out whatever the user's cooldown record says, and handling it
\* leaves db.cooldown as it was.
C13_PrivilegedAdmission ==
    [][(/\ event'.type = "text"
        /\ chat' # chat
        /\ \E k \in 1..Len(users) : /\ users[k].user_id = event'.from
                                     /\ (users[k].admin \/ users[k].vip)) =>
          /\ reply'.kind = "sent"
          /\ ~fault'
          /\ Len(calls') = Len(users)
          /\ cooldown' = cooldown]_vars

\* C13 happens: a vip user inside its cooldown has a message fanned out
C13_Witness ==
    /\ event.type = "text"
    /\ reply.kind = "sent"
    /\ event.from \in DOMAIN cooldown
    /\ now - cooldown[event.from] < COOLDOWN
    /\ \E k \in 1..Len(users) : users[k].user_id = event.from /\ users[k].vip
    /\ \E d \in Records : d.sender_id = event.from /\ d.original_message_id = event.message_id

\* C14: the handler of a new message, an edited message, /del, /ban or
\* /unban never ends with an uncaught exception.
C14_NoUnhandledFault ==
    event.type \in {"text", "edit", "del", "ban", "unban"} => ~fault

\* C15: a /del, /ban or /unban whose replied-to message resolves to no record
\* ends with the generic failure reply.
C15_NotFoundFails ==
    (/\ event.type \in {"del", "ban", "unban"}
     /\ find_replied(sent_messages, event.reply_to, event.is_bot) = <<>>) =>
        reply.kind = "failed"

\* C16: in every state reached by /start, new messages, edits and deletes
\* handled one at a time, each record of the ledger is the only one of its
\* sender, original message and recipient.
C16_LedgerUnique ==
    \A d \in Records :
        Len(BroadcastOf(sent_messages, d.sender_id, d.original_message_id,
                        d.receiver_id)) = 1

\* C16 happens: one broadcast recorded for two recipients, and two senders'
\* broadcasts with the same original id recorded for one recipient
C16_Witness ==
    \E a, b, c \in Records :
        /\ a.sender_id = b.sender_id
        /\ a.original_message_id = b.original_message_id
        /\ a.receiver_id # b.receiver_id
        /\ c.sender_id # a.sender_id
        /\ c.original_message_id = a.original_message_id
        /\ c.receiver_id = a.receiver_id

\* C17: the confirmation of an admitted message whose sender is in the
\* directory is sent only when every task of its fan-out has finished, the
\* record of every copy that succeeded being written; and once the fan-out
\* has started the confirmation is eventually sent.
C17_JoinBeforeSettle ==
    /\ [](\A s \in Slots :
            run[s].pc = "settled" =>
                \A k \in 1..Len(run[s].tasks) :
                    LET task == run[s].tasks[k]
                    IN /\ task.pc = "done"
                       /\ task.copy_id # None =>
                              \E d \in Records :
                                  /\ d.sender_id = run[s].from
                                  /\ d.original_message_id = run[s].message_id
                                  /\ d.receiver_id = task.user_id
                                  /\ d.receiver_message_id = task.copy_id)
    /\ \A s \in Slots : (run[s].pc = "fanout") ~> (run[s].pc = "settled")

\* C17 happens: a fan-out of two tasks, one copy made and one failed, is
\* confirmed while another message is still being fanned out
C17_Witness ==
    \E s, t \in Slots :
        /\ run[s].pc = "settled"
        /\ run[t].pc = "fanout"
        /\ \E j, k \in 1..Len(run[s].tasks) :
               /\ run[s].tasks[j].copy_id # None
               /\ run[s].tasks[k].copy_id = None

\* C18: with two invocations of text_handler in flight, the check of a user
\* without privilege decides on the cooldown record as it is when read
\* (denied iff a record exists that is less than 60 seconds old), and the
\* write of sent_at is a later step of its own that checks nothing again: an
\* invocation that passed the check goes on to the fan-out and sets sent_at
\* to now, whatever the other invocation wrote in between.
C18_CheckThenSet ==
    [][\A s \in Slots :
          LET u == run[s].from
          IN /\ (run[s].pc = "check" /\ run'[s].pc # "check" /\ ~run'[s].privileged) =>
                    /\ run'[s].pc \in {"set", "denied"}
                    /\ run'[s].pc = "denied" <=>
                           (u \in DOMAIN cooldown /\ now - cooldown[u] < COOLDOWN)
                    /\ cooldown' = cooldown
             /\ (run[s].pc = "set" /\ run'[s].pc # "set") =>
                    /\ run'[s].pc = "broadcast"
                    /\ u \in DOMAIN cooldown'
                    /\ cooldown'[u] = now]_vars

\* C18 happens: two messages of one user without privilege, checked less
\* than 60 seconds apart, each before the other's write, are both admitted
\* and fanned out
C18_Witness ==
    \E s, t \in Slots :
        /\ s # t
        /\ run[s].from = run[t].from
        /\ run[s].pc = "settled" /\ run[t].pc = "settled"
        /\ ~run[s].privileged /\ ~run[t].privileged
        /\ run[s].seen = <<>> /\ run[t].seen = <<>>
        /\ run[s].at - run[t].at < COOLDOWN
        /\ run[t].at - run[s].at < COOLDOWN
        /\ \E k \in 1..Len(run[s].tasks) : run[s].tasks[k].copy_id # None
        /\ \E k \in 1..Len(run[t].tasks) : run[t].tasks[k].copy_id # None

\* C19: every transport delete that a /del of a user who is not admin
\* attempts is for a copy whose record has that user as sender.
C19_DeleteOwnOnly ==
    (event.type = "del" /\ ~is_admin(users, event.from)) =>
        \A call \in Calls, d \in Records :
            (/\ d.receiver_id = call.chat_id
             /\ d.receiver_message_id = call.message_id) => d.sender_id = event.from

\* C20: /vip <id> of the operator sets the target's vip flag and leaves its
\* admin flag as it was, /admin <id> sets the admin flag and leaves the vip
\* flag as it was, and either command of anyone else changes no state.
C20_GrantOnlyFlag ==
    [][(event'.type \in {"admin", "vip"} /\ event' # event /\ ~fault') =>
          LET target == event'.message_id
          IN IF event'.from = admin_id
             THEN /\ event'.type = "vip" =>
                        /\ is_vip(users', target)
                        /\ is_admin(users', target) = is_admin(users, target)
                  /\ event'.type = "admin" =>
                        /\ is_admin(users', target)
                        /\ is_vip(users', target) = is_vip(users, target)
             ELSE UNCHANGED <<users, cooldown, sent_messages>>]_vars

=============================================================================
